---- MODULE Spec2Model ----
(***************************************************************************)
(* Model of src/app.py: the Google-Sheets conversation log (add_log,       *)
(* get_logs, the cached connector) and the Streamlit script that calls    *)
(* them (log zone, translate / explain / note handlers).                   *)
(*                                                                         *)
(* Strings are kept as run-length encoded sequences of [c, n] runs, so    *)
(* that a content of 50,001 characters is a value TLC can hold and the    *)
(* bound max_length = 50000 of add_log keeps its real value.              *)
(***************************************************************************)
EXTENDS Integers, Sequences, FiniteSets, TLC

(***************************************************************************)
(* Strings                                                                 *)
(***************************************************************************)
Min(a, b) == IF a <= b THEN a ELSE b

\* the string of n copies of the character c
Rep(c, n) == IF n = 0 THEN <<>> ELSE <<[c |-> c, n |-> n]>>

\* a + b on strings
Concat(a, b) ==
    IF a = <<>> THEN b
    ELSE IF b = <<>> THEN a
    ELSE IF a[Len(a)].c = b[1].c
         THEN SubSeq(a, 1, Len(a) - 1)
              \o <<[c |-> b[1].c, n |-> a[Len(a)].n + b[1].n]>>
              \o Tail(b)
         ELSE a \o b

RECURSIVE StrOf(_)
\* the string spelled by a sequence of characters
StrOf(cs) == IF cs = <<>> THEN <<>> ELSE Concat(Rep(Head(cs), 1), StrOf(Tail(cs)))

RECURSIVE StrLen(_)
\* len(s)
StrLen(s) == IF s = <<>> THEN 0 ELSE Head(s).n + StrLen(Tail(s))

RECURSIVE Slice(_, _)
\* s[:k]
Slice(s, k) ==
    IF k <= 0 \/ s = <<>> THEN <<>>
    ELSE IF Head(s).n >= k THEN <<[c |-> Head(s).c, n |-> k]>>
    ELSE <<Head(s)>> \o Slice(Tail(s), k - Head(s).n)

Whitespace == {" "}

\* the input taken as it is typed (if not ai_input: ...)
strip_nothing(s) == s

\* s.strip()
strip(s) ==
    LET l == IF s # <<>> /\ Head(s).c \in Whitespace THEN Tail(s) ELSE s
    IN  IF l # <<>> /\ l[Len(l)].c \in Whitespace THEN SubSeq(l, 1, Len(l) - 1) ELSE l

\* code points of the characters that occur in a sorted column
Ord(c) ==
    CASE c = " " -> 32 [] c = "0" -> 48 [] c = "1" -> 49 [] c = "2" -> 50
      [] c = "3" -> 51 [] c = "4" -> 52 [] c = "5" -> 53 [] c = "6" -> 54
      [] c = "7" -> 55 [] c = "8" -> 56 [] c = "9" -> 57 [] OTHER -> 97

RECURSIVE StrLess(_, _)
\* a < b, Python's lexical comparison of str
StrLess(a, b) ==
    IF b = <<>> THEN FALSE
    ELSE IF a = <<>> THEN TRUE
    ELSE IF Head(a).c # Head(b).c THEN Ord(Head(a).c) < Ord(Head(b).c)
    ELSE LET k == Min(Head(a).n, Head(b).n)
             ra == IF Head(a).n = k THEN Tail(a)
                   ELSE <<[c |-> Head(a).c, n |-> Head(a).n - k]>> \o Tail(a)
             rb == IF Head(b).n = k THEN Tail(b)
                   ELSE <<[c |-> Head(b).c, n |-> Head(b).n - k]>> \o Tail(b)
         IN  StrLess(ra, rb)


(***************************************************************************)
(* Bounds and program constants                                            *)
(***************************************************************************)
\* the clock is followed up to this second
MaxTime == 5
\* at most this many rows are appended to the sheet in a behaviour
MaxAppends == 2
\* calls to the sheet or to the model fail at most this often in a behaviour
MaxFaults == 3

\* a retry policy that stops one attempt early
StopAfterTwoAttempts == 3 - 1

\* @retry(stop=stop_after_attempt(3), wait=wait_fixed(2))
stop_after_attempt == 3
wait_fixed == 2
\* @st.cache_data(ttl=5)
ttl == 5
\* max_length = 50000
max_length == 50000

Sessions == {"s1", "s2"}

(***************************************************************************)
(* Literals of the program                                                 *)
(***************************************************************************)
S_timestamp == StrOf(<<"t","i","m","e","s","t","a","m","p">>)
S_role == StrOf(<<"r","o","l","e">>)
S_tag == StrOf(<<"t","a","g">>)
S_content == StrOf(<<"c","o","n","t","e","n","t">>)
S_user == StrOf(<<"u","s","e","r">>)
S_ai == StrOf(<<"a","i">>)
S_vocab == StrOf(<<"v","o","c","a","b">>)
S_explain_brief == StrOf(<<"e","x","p","l","a","i","n","_","b","r","i","e","f">>)
S_explain_std == StrOf(<<"e","x","p","l","a","i","n","_","s","t","d">>)
S_explain_ext == StrOf(<<"e","x","p","l","a","i","n","_","e","x","t">>)
S_question == StrOf(<<"q","u","e","s","t","i","o","n">>)
S_understand == StrOf(<<"u","n","d","e","r","s","t","a","n","d">>)
S_insight == StrOf(<<"i","n","s","i","g","h","t">>)
\* "...(truncated)"
TruncationMarker == StrOf(<<".",".",".","(","t","r","u","n","c","a","t","e","d",")">>)

default_columns == <<S_timestamp, S_role, S_tag, S_content>>

Digits == <<"0","1","2","3","4","5","6","7","8","9">>
\* datetime.now(tw_tz).strftime(...): the clock as a fixed-width, zero-padded
\* decimal field (the fields to its left are constant over the horizon followed)
strftime(t) == StrOf(<<Digits[((t \div 10) % 10) + 1], Digits[(t % 10) + 1]>>)

(***************************************************************************)
(* add_log: content bounding                                               *)
(***************************************************************************)
\* the bounding with >= for >
TruncateFromBound(content) ==
    IF StrLen(content) >= max_length
    THEN Concat(Slice(content, max_length), TruncationMarker)
    ELSE content

\* if len(content) > max_length: content = content[:max_length] + "...(truncated)"
Truncate(content) ==
    IF StrLen(content) > max_length
    THEN Concat(Slice(content, max_length), TruncationMarker)
    ELSE content

\* row = [timestamp, role, tag, content]
MakeRow(t, role, tag, content) == <<strftime(t), role, tag, Truncate(content)>>

(***************************************************************************)
(* get_logs: the DataFrame and its sort                                    *)
(***************************************************************************)
\* pd.DataFrame(columns=default_columns)
EmptyFrame == [columns |-> default_columns, data |-> <<>>]

\* position of a column name in the header, 0 when absent
RECURSIVE ColumnIndex(_, _)
ColumnIndex(columns, name) ==
    IF columns = <<>> THEN 0
    ELSE IF columns[Len(columns)] = name /\ ColumnIndex(SubSeq(columns, 1, Len(columns) - 1), name) = 0
         THEN Len(columns)
    ELSE ColumnIndex(SubSeq(columns, 1, Len(columns) - 1), name)

\* the order of ascending=True
PrecedesAscending(a, b, k) == StrLess(a[k], b[k])

\* whether row a is placed before row b when both carry key column k:
\* ascending=False puts the larger key first
Precedes(a, b, k) == StrLess(b[k], a[k])

RECURSIVE InsertRow(_, _, _)
\* x is placed behind every row that does not come after it
InsertRow(x, rows, k) ==
    IF rows = <<>> THEN <<x>>
    ELSE IF Precedes(x, Head(rows), k) THEN <<x>> \o rows
    ELSE <<Head(rows)>> \o InsertRow(x, Tail(rows), k)

RECURSIVE sort_values_unique(_, _)
\* the sort followed by drop_duplicates(subset=...): one row per key
sort_values_unique(rows, k) ==
    IF rows = <<>> THEN <<>>
    ELSE LET rest == sort_values_unique(SubSeq(rows, 1, Len(rows) - 1), k)
             x == rows[Len(rows)]
         IN  IF \E i \in DOMAIN rest : rest[i][k] = x[k] THEN rest
             ELSE InsertRow(x, rest, k)

RECURSIVE sort_values(_, _)
\* df.sort_values(by=..., ascending=False).reset_index(drop=True): rows with
\* equal keys keep the order they have in the sheet
sort_values(rows, k) ==
    IF rows = <<>> THEN <<>>
    ELSE InsertRow(rows[Len(rows)], sort_values(SubSeq(rows, 1, Len(rows) - 1), k), k)

\* the parse with data = all_values[2:], which loses the first record
ParseLogsFromThird(all_values) ==
    IF Len(all_values) < 2 THEN EmptyFrame
    ELSE LET header == all_values[1]
             data == Tail(Tail(all_values))
             k == ColumnIndex(header, S_timestamp)
         IN  [columns |-> header,
              data |-> IF k # 0 THEN sort_values(data, k) ELSE data]

\* the body of get_logs after worksheet.get_all_values() returned all_values
ParseLogs(all_values) ==
    IF Len(all_values) < 2 THEN EmptyFrame
    ELSE LET header == all_values[1]
             data == Tail(all_values)
             k == ColumnIndex(header, S_timestamp)
         IN  [columns |-> header,
              data |-> IF k # 0 THEN sort_values(data, k) ELSE data]


(***************************************************************************)
(* State                                                                   *)
(***************************************************************************)
VARIABLES
    secrets,        \* st.secrets: what .streamlit/secrets.toml provides
    inputs,         \* per session: what its user presses, types and selects, and what the model answers
    faults,         \* how many more calls to the sheet or the model may fail
    client_cache,   \* st.cache_resource entry of get_google_sheet_client
    sheet,          \* the rows of spreadsheet.sheet1, in append order
    acked,          \* per row of the sheet: the second its append_row call returned; -1 if the
                    \* call raised; -2 for a row found at start
    now,            \* the wall clock, in seconds
    logs_cache,     \* st.cache_data entry of get_logs
    lock,           \* holder of the cache's compute lock for get_logs
    pc,             \* where each session's script run stands
    widgets,        \* per session: the button pressed and the widget values of the run
    logs_df,        \* per session: what get_logs returned to the log zone
    logs_via,       \* per session: how that call was served ("hit", "miss") and from how many raw rows
    all_values,     \* per session: the rows read by a get_logs call in flight
    hist,           \* per session: the backend and model calls of the run, in order
    wake_at,        \* per session: end of the current wait between attempts
    response,       \* per session: response.text of the model call
    msg             \* per session: what the run showed (warning, error, toast)

vars == <<secrets, inputs, faults, client_cache, sheet, acked, now, logs_cache, lock, pc, widgets,
          logs_df, logs_via, all_values, hist, wake_at, response, msg>>

\* user inputs followed besides the short text: empty, blank, text of exactly
\* max_length characters and text one character longer
Texts == { <<>>, Rep(" ", 2), Rep("a", max_length),
           Concat(Rep("a", max_length), Rep("b", 1)) }
\* the inputs among them that the handlers refuse
BlankTexts == { <<>>, Rep(" ", 2) }
\* model answers followed besides the short one
Answers == { Concat(Rep("b", max_length), Rep("c", 2)) }
\* st.pills values of depth_mode followed besides the default "std" (of "摘要",
\* "詳解", "延伸" and no selection: "brief", "std", "ext", "None")
DepthModes == {"None"}
\* st.pills values of note_tag followed besides the default "understand" (of
\* "問題", "理解", "洞察" and no selection: "question", "understand", "insight", "None")
NoteTags == {"question"}

NoWidgets == [btn |-> "none", text |-> <<>>, pill |-> "None"]
NoVia == [how |-> "none", rows |-> -1, due |-> 0]
NoCache == [set |-> FALSE, value |-> EmptyFrame, rows |-> -1, expire |-> 0]

\* the last row of the sheet whose append returned ttl seconds ago or earlier
\* (0 when there is none)
Due == LET D == {i \in 1..Len(sheet) : acked[i] >= 0 /\ now >= acked[i] + ttl}
       IN  IF D = {} THEN 0 ELSE CHOOSE i \in D : \A j \in D : j <= i

\* a row written before the run, by a clock ahead of the one followed
OldRow == <<strftime(2), S_user, S_vocab, Rep("a", 1)>>

\* the state once the process is up: no connector yet, no cached read, idle sessions
Start ==
    /\ faults = MaxFaults
    /\ client_cache = "unset"
    /\ acked = [i \in 1..Len(sheet) |-> -2]
    /\ now = 0
    /\ logs_cache = NoCache
    /\ lock = "none"
    /\ widgets = [s \in Sessions |-> NoWidgets]
    /\ logs_df = [s \in Sessions |-> EmptyFrame]
    /\ logs_via = [s \in Sessions |-> NoVia]
    /\ all_values = [s \in Sessions |-> <<>>]
    /\ hist = [s \in Sessions |-> <<>>]
    /\ wake_at = [s \in Sessions |-> 0]
    /\ response = [s \in Sessions |-> <<>>]
    /\ msg = [s \in Sessions |-> "none"]

AllSecrets == [gcp : {"missing", "invalid", "valid"},
               sheet_url : {"missing", "present"},
               api_key : {"missing", "placeholder", "valid"}]
GoodSecrets == [gcp |-> "valid", sheet_url |-> "present", api_key |-> "valid"]

\* one configuration for each way the secrets can be wrong
BadSecrets == { [GoodSecrets EXCEPT !.gcp = "missing"],
                [GoodSecrets EXCEPT !.gcp = "invalid"],
                [GoodSecrets EXCEPT !.sheet_url = "missing"],
                [GoodSecrets EXCEPT !.api_key = "missing"] }

Buttons == {"translate", "explain", "save_note"}
\* " a ": a short text with blanks around it
ShortText == Concat(Rep(" ", 1), Concat(Rep("a", 1), Rep(" ", 1)))
ShortAnswer == Rep("b", 1)
\* what a session's user does when nothing else is said
Plain(btn) == [btn |-> btn, text |-> ShortText, depth_mode |-> "std",
               note_tag |-> "understand", answer |-> ShortAnswer]
\* a session whose user only loads the page
Reader == Plain("none")

\* one session; each behaviour varies one thing: the button, the configuration
\* (a note needs no API key: there only the sheet's secrets vary), the sheet
\* found at start, the text typed, the answer of the model
Init ==
    /\ \/ /\ secrets = GoodSecrets
          /\ sheet = <<default_columns>>
          /\ inputs = [s \in Sessions |-> Plain("translate")]
       \/ /\ secrets \in AllSecrets \ {GoodSecrets}
          /\ sheet = <<default_columns>>
          /\ \E btn \in Buttons :
                /\ btn = "save_note" => secrets.gcp # "valid" \/ secrets.sheet_url = "missing"
                /\ inputs = [s \in Sessions |-> Plain(btn)]
       \/ /\ secrets = GoodSecrets
          /\ sheet \in { <<>>, <<default_columns, OldRow>> }
          /\ inputs = [s \in Sessions |-> Plain("save_note")]
       \/ /\ secrets = GoodSecrets
          /\ sheet = <<default_columns>>
          /\ \E text \in Texts, tag \in NoteTags :
                inputs = [s \in Sessions |->
                            [Plain("save_note") EXCEPT !.text = text, !.note_tag = tag]]
       \/ /\ secrets = GoodSecrets
          /\ sheet = <<default_columns>>
          /\ \E answer \in Answers, depth \in DepthModes :
                inputs = [s \in Sessions |->
                            [Plain("explain") EXCEPT !.answer = answer, !.depth_mode = depth]]
       \/ /\ secrets = GoodSecrets
          /\ sheet = <<default_columns>>
          /\ \E btn \in {"translate", "explain"}, text \in BlankTexts :
                inputs = [s \in Sessions |-> [Plain(btn) EXCEPT !.text = text]]
    /\ pc = [s \in Sessions |-> IF s = "s1" THEN "Idle" ELSE "Closed"]
    /\ Start

\* two sessions on one process: s1 saves notes, s2 loads the page; or s1
\* translates, with s2 loading the page when the text or the secrets stop it
InitShared ==
    /\ \/ /\ secrets = GoodSecrets
          /\ sheet \in { <<>>, <<default_columns>> }
          /\ inputs = [s \in Sessions |-> IF s = "s1" THEN Plain("save_note") ELSE Reader]
          /\ pc = [s \in Sessions |-> "Idle"]
       \/ /\ secrets = GoodSecrets
          /\ sheet = <<default_columns>>
          /\ inputs = [s \in Sessions |-> IF s = "s1" THEN Plain("translate") ELSE Reader]
          /\ pc = [s \in Sessions |-> IF s = "s1" THEN "Idle" ELSE "Closed"]
       \/ /\ secrets = GoodSecrets
          /\ sheet = <<default_columns>>
          /\ inputs = [s \in Sessions |->
                         IF s = "s1" THEN [Plain("translate") EXCEPT !.text = <<>>] ELSE Reader]
          /\ pc = [s \in Sessions |-> "Idle"]
       \/ /\ secrets \in BadSecrets
          /\ sheet = <<default_columns>>
          /\ inputs = [s \in Sessions |-> IF s = "s1" THEN Plain("translate") ELSE Reader]
          /\ pc = [s \in Sessions |-> "Idle"]
    /\ Start

(***************************************************************************)
(* Backend connector                                                       *)
(***************************************************************************)
\* get_google_sheet_client under @st.cache_resource: a returned value (None
\* included) is cached, a raised exception is not
get_google_sheet_client ==
    IF client_cache # "unset" THEN [ret |-> client_cache, cache |-> client_cache]
    ELSE IF secrets.gcp = "missing" THEN [ret |-> "None", cache |-> "None"]
    ELSE IF secrets.gcp = "invalid" THEN [ret |-> "raise", cache |-> "unset"]
    ELSE [ret |-> "client", cache |-> "client"]

\* get_worksheet; open_ok is whether client.open_by_url(...).sheet1 answers
get_worksheet(open_ok) ==
    LET client == get_google_sheet_client.ret
    IN  IF client = "raise" THEN "raise"
        ELSE IF client = "None" THEN "None"
        ELSE IF secrets.sheet_url = "missing" THEN "None"
        ELSE IF ~open_ok THEN "None"
        ELSE "worksheet"

check_sheets_connection == secrets.gcp # "missing" /\ secrets.sheet_url # "missing"


(***************************************************************************)
(* The script run of one session                                           *)
(***************************************************************************)
\* depth_tag_map.get(depth_mode, "explain_std")
depth_tag_map(depth_mode) ==
    CASE depth_mode = "brief" -> S_explain_brief
      [] depth_mode = "std" -> S_explain_std
      [] depth_mode = "ext" -> S_explain_ext
      [] OTHER -> S_explain_std

\* note_tag_map.get(note_tag, "understand")
note_tag_map(note_tag) ==
    CASE note_tag = "question" -> S_question
      [] note_tag = "understand" -> S_understand
      [] note_tag = "insight" -> S_insight
      [] OTHER -> S_understand

\* the tag the handlers of a button pass to add_log
TagOf(w) ==
    CASE w.btn = "translate" -> S_vocab
      [] w.btn = "explain" -> depth_tag_map(w.pill)
      [] OTHER -> note_tag_map(w.pill)

\* the handler with the model called before the user record is written
AIFlowModelFirst == <<"Invoking", "LoggingUser", "LoggingAI">>

\* the steps of the translate and explain handlers, in program order
AIFlow == <<"LoggingUser", "Invoking", "LoggingAI">>
\* the steps of the save-note handler
NoteFlow == <<"Persisting">>

FlowOf(btn) == IF btn = "save_note" THEN NoteFlow ELSE AIFlow

\* the step that follows stage in the handler of btn; "Rerun" after the last
\* one (st.toast, time.sleep(0.5), st.rerun())
StageAfter(btn, stage) ==
    LET flow == FlowOf(btn)
        i == CHOOSE k \in 1..Len(flow) : flow[k] = stage
    IN  IF i = Len(flow) THEN "Rerun" ELSE flow[i + 1]

WriteStages == {"LoggingUser", "LoggingAI", "Persisting"}

\* the arguments of the add_log call of a stage
LogArgs(s, stage) ==
    IF stage = "LoggingAI"
    THEN [role |-> S_ai, tag |-> TagOf(widgets[s]), content |-> response[s]]
    ELSE [role |-> S_user, tag |-> TagOf(widgets[s]), content |-> strip(widgets[s].text)]

\* the calls a run made during one stage
RECURSIVE CallsOf(_, _)
CallsOf(h, stage) ==
    IF h = <<>> THEN <<>>
    ELSE IF Head(h).stage = stage THEN <<Head(h)>> \o CallsOf(Tail(h), stage)
    ELSE CallsOf(Tail(h), stage)

\* the script run reaches the log zone: either a run that starts now, on a
\* button press or a page load, or the run that st.rerun() started
Enter(s) ==
    IF pc[s] = "Idle"
    THEN \E btn \in {"none", inputs[s].btn} :
            widgets' = [widgets EXCEPT ![s] =
                [btn |-> btn,
                 text |-> IF btn = "none" THEN <<>> ELSE inputs[s].text,
                 pill |-> CASE btn = "explain" -> inputs[s].depth_mode
                            [] btn = "save_note" -> inputs[s].note_tag
                            [] OTHER -> "None"]]
    ELSE pc[s] = "LogZone" /\ UNCHANGED widgets

\* log zone with sheets_connected false: st.warning, get_logs is not called
LogZoneOff(s) ==
    /\ Enter(s)
    /\ ~check_sheets_connection
    /\ pc' = [pc EXCEPT ![s] = "InputZone"]
    /\ UNCHANGED <<secrets, inputs, faults, client_cache, sheet, acked, now, logs_cache, lock,
                   logs_df, logs_via, all_values, hist, wake_at, response, msg>>

\* the ttl test the wrong way round
FreshInverted == logs_cache.set /\ now >= logs_cache.expire

\* the cached entry of get_logs is still alive
Fresh == logs_cache.set /\ now < logs_cache.expire

\* get_logs served by st.cache_data
get_logs_hit(s) ==
    /\ Enter(s)
    /\ check_sheets_connection
    /\ Fresh
    /\ logs_df' = [logs_df EXCEPT ![s] = logs_cache.value]
    /\ logs_via' = [logs_via EXCEPT ![s] =
                      [how |-> "hit", rows |-> logs_cache.rows, due |-> Due]]
    /\ pc' = [pc EXCEPT ![s] = "InputZone"]
    /\ UNCHANGED <<secrets, inputs, faults, client_cache, sheet, acked, now, logs_cache, lock,
                   all_values, hist, wake_at, response, msg>>

\* get_logs runs: get_worksheet() and worksheet.get_all_values()
get_logs_miss(s) ==
    /\ Enter(s)
    /\ check_sheets_connection
    /\ ~Fresh
    /\ lock = "none"
    /\ get_worksheet(TRUE) # "raise"
    /\ \/ /\ get_worksheet(TRUE) = "worksheet"
          /\ all_values' = [all_values EXCEPT ![s] = [ok |-> TRUE, rows |-> sheet, due |-> Due]]
          /\ UNCHANGED faults
       \/ /\ get_worksheet(TRUE) = "None"
          /\ all_values' = [all_values EXCEPT ![s] = [ok |-> FALSE, rows |-> <<>>, due |-> Due]]
          /\ UNCHANGED faults
       \/ /\ get_worksheet(TRUE) = "worksheet"
          /\ faults > 0
          /\ faults' = faults - 1
          /\ all_values' = [all_values EXCEPT ![s] = [ok |-> FALSE, rows |-> <<>>, due |-> Due]]
    /\ client_cache' = get_google_sheet_client.cache
    /\ lock' = s
    /\ pc' = [pc EXCEPT ![s] = "Fetching"]
    /\ UNCHANGED <<secrets, inputs, sheet, acked, now, logs_cache, logs_df, logs_via,
                   hist, wake_at, response, msg>>

\* get_logs: the exception of get_google_sheet_client leaves get_worksheet and
\* get_logs (line 102 is outside the try); the log zone shows st.error
get_logs_raise(s) ==
    /\ Enter(s)
    /\ check_sheets_connection
    /\ ~Fresh
    /\ lock = "none"
    /\ get_worksheet(TRUE) = "raise"
    /\ client_cache' = get_google_sheet_client.cache
    /\ logs_via' = [logs_via EXCEPT ![s] = [how |-> "raise", rows |-> -1, due |-> Due]]
    /\ pc' = [pc EXCEPT ![s] = "InputZone"]
    /\ UNCHANGED <<secrets, inputs, faults, sheet, acked, now, logs_cache, lock, logs_df,
                   all_values, hist, wake_at, response, msg>>

\* what get_logs computes from the outcome of its read
FrameOf(read) == IF read.ok THEN ParseLogs(read.rows) ELSE EmptyFrame

\* get_logs returns: the frame is built, cached for ttl seconds and handed back
get_logs_store(s) ==
    /\ pc[s] = "Fetching"
    /\ logs_cache' = [set |-> TRUE, value |-> FrameOf(all_values[s]),
                      rows |-> IF all_values[s].ok THEN Len(all_values[s].rows) ELSE -1,
                      expire |-> now + ttl]
    /\ logs_df' = [logs_df EXCEPT ![s] = FrameOf(all_values[s])]
    /\ logs_via' = [logs_via EXCEPT ![s] =
                      [how |-> "miss",
                       rows |-> IF all_values[s].ok THEN Len(all_values[s].rows) ELSE -1,
                       due |-> all_values[s].due]]
    /\ all_values' = [all_values EXCEPT ![s] = <<>>]
    /\ lock' = "none"
    /\ pc' = [pc EXCEPT ![s] = "InputZone"]
    /\ UNCHANGED <<secrets, inputs, faults, client_cache, sheet, acked, now, widgets, hist, wake_at,
                   response, msg>>


(***************************************************************************)
(* Input zone: the button handlers                                         *)
(***************************************************************************)
\* the log zone has rendered logs_df; the handler ends the run showing m
Finish(s, m) ==
    /\ pc' = [pc EXCEPT ![s] = "Done"]
    /\ msg' = [msg EXCEPT ![s] = m]

\* the session's run is over: its locals are gone
Leave(s) ==
    /\ pc' = [pc EXCEPT ![s] = "Idle"]
    /\ widgets' = [widgets EXCEPT ![s] = NoWidgets]
    /\ logs_df' = [logs_df EXCEPT ![s] = EmptyFrame]
    /\ logs_via' = [logs_via EXCEPT ![s] = NoVia]
    /\ hist' = [hist EXCEPT ![s] = <<>>]
    /\ wake_at' = [wake_at EXCEPT ![s] = 0]
    /\ response' = [response EXCEPT ![s] = <<>>]
    /\ msg' = [msg EXCEPT ![s] = "none"]

\* no button was pressed in this run: the script ends below the input zone
NoButton(s) ==
    /\ pc[s] = "InputZone"
    /\ widgets[s].btn = "none"
    /\ Leave(s)
    /\ UNCHANGED <<secrets, inputs, faults, client_cache, sheet, acked, now, logs_cache, lock,
                   all_values>>

\* if not ai_input.strip(): st.warning(...)   (likewise note_input)
EmptyInput(s) ==
    /\ pc[s] = "InputZone"
    /\ widgets[s].btn # "none"
    /\ strip(widgets[s].text) = <<>>
    /\ Finish(s, "warning")
    /\ UNCHANGED <<secrets, inputs, faults, client_cache, sheet, acked, now, logs_cache, lock,
                   widgets, logs_df, logs_via, all_values, hist, wake_at, response>>

\* elif not sheets_connected: st.error(...)
NotConnected(s) ==
    /\ pc[s] = "InputZone"
    /\ widgets[s].btn # "none"
    /\ strip(widgets[s].text) # <<>>
    /\ ~check_sheets_connection
    /\ Finish(s, "error")
    /\ UNCHANGED <<secrets, inputs, faults, client_cache, sheet, acked, now, logs_cache, lock,
                   widgets, logs_df, logs_via, all_values, hist, wake_at, response>>

\* api_key missing, empty or the placeholder: st.error(...); st.stop()
NoApiKey(s) ==
    /\ pc[s] = "InputZone"
    /\ widgets[s].btn \in {"translate", "explain"}
    /\ strip(widgets[s].text) # <<>>
    /\ check_sheets_connection
    /\ secrets.api_key # "valid"
    /\ Finish(s, "error")
    /\ UNCHANGED <<secrets, inputs, faults, client_cache, sheet, acked, now, logs_cache, lock,
                   widgets, logs_df, logs_via, all_values, hist, wake_at, response>>

\* the handler enters its try block; the frame the log zone rendered is not
\* used again
StartHandler(s) ==
    /\ pc[s] = "InputZone"
    /\ widgets[s].btn # "none"
    /\ strip(widgets[s].text) # <<>>
    /\ check_sheets_connection
    /\ widgets[s].btn \in {"translate", "explain"} => secrets.api_key = "valid"
    /\ pc' = [pc EXCEPT ![s] = FlowOf(widgets[s].btn)[1]]
    /\ wake_at' = [wake_at EXCEPT ![s] = now]
    /\ logs_df' = [logs_df EXCEPT ![s] = EmptyFrame]
    /\ logs_via' = [logs_via EXCEPT ![s] = NoVia]
    /\ UNCHANGED <<secrets, inputs, faults, client_cache, sheet, acked, now, logs_cache, lock,
                   widgets, all_values, hist, response, msg>>

(***************************************************************************)
(* add_log under @retry                                                    *)
(***************************************************************************)
\* worksheet.insert_row(row): the row is put on top of the sheet
insert_row(rows, row) == <<row>> \o rows

\* an append that leaves out a record the sheet already holds (same role, tag
\* and content)
append_row_unless_present(rows, row) ==
    IF \E i \in DOMAIN rows : SubSeq(rows[i], 2, 4) = SubSeq(row, 2, 4) THEN rows
    ELSE Append(rows, row)

\* worksheet.append_row(row): the row is put below the last row of the sheet
append_row(rows, row) == Append(rows, row)

\* the number of rows appended since the start
Appended == Cardinality({i \in 1..Len(sheet) : acked[i] # -2})

\* one attempt of add_log: what it leaves in the sheet and in the run's history.
\* fate is what the backend does with it: "ok"; "no_sheet" (open_by_url fails);
\* "fail" (append_row raises, nothing written); "lost_ack" (append_row writes
\* the row and raises); "down" (no client, or no sheet_url: nothing is tried)
Attempt(s, fate) ==
    LET ws == get_worksheet(fate # "no_sheet")
        a == LogArgs(s, pc[s])
        written == fate \in {"ok", "lost_ack"}
    IN  /\ (fate = "down") = (get_worksheet(TRUE) # "worksheet")
        /\ written => Appended < MaxAppends
        /\ fate \in {"no_sheet", "fail", "lost_ack"} => faults > 0
        /\ faults' = IF fate \in {"no_sheet", "fail", "lost_ack"} THEN faults - 1 ELSE faults
        /\ sheet' = IF written THEN append_row(sheet, MakeRow(now, a.role, a.tag, a.content))
                    ELSE sheet
        /\ acked' = IF written THEN Append(acked, IF fate = "ok" THEN now ELSE -1) ELSE acked
        /\ client_cache' = get_google_sheet_client.cache
        /\ hist' = [hist EXCEPT ![s] = Append(@,
                       [stage |-> pc[s], ok |-> fate = "ok", ws |-> ws,
                        row |-> IF written THEN Len(sheet) + 1 ELSE 0])]

\* what follows a call of stage that returned: the next step of the handler,
\* or st.toast, time.sleep(0.5) and st.rerun() after the last one
Proceed(s, stage) ==
    IF StageAfter(widgets[s].btn, stage) = "Rerun"
    THEN /\ pc' = [pc EXCEPT ![s] = "LogZone"]
         /\ widgets' = [widgets EXCEPT ![s].btn = "none"]
         /\ msg' = [msg EXCEPT ![s] = "toast"]
    ELSE /\ pc' = [pc EXCEPT ![s] = StageAfter(widgets[s].btn, stage)]
         /\ UNCHANGED <<widgets, msg>>

\* add_log returns
add_log_ok(s) ==
    /\ pc[s] \in WriteStages
    /\ now >= wake_at[s]
    /\ Attempt(s, "ok")
    /\ Proceed(s, pc[s])
    /\ UNCHANGED <<secrets, inputs, now, logs_cache, lock, logs_df, logs_via, all_values,
                   wake_at, response>>

\* an attempt raises and tenacity sleeps wait_fixed seconds before the next one
add_log_retry(s) ==
    /\ pc[s] \in WriteStages
    /\ now >= wake_at[s]
    /\ Len(CallsOf(hist[s], pc[s])) + 1 < stop_after_attempt
    /\ \E fate \in {"no_sheet", "fail", "lost_ack", "down"} : Attempt(s, fate)
    /\ wake_at' = [wake_at EXCEPT ![s] = now + wait_fixed]
    /\ UNCHANGED <<secrets, inputs, now, logs_cache, lock, pc, widgets, logs_df, logs_via,
                   all_values, response, msg>>

\* the last attempt raises: tenacity raises RetryError, the handler's
\* except Exception shows st.error and the run ends
add_log_give_up(s) ==
    /\ pc[s] \in WriteStages
    /\ now >= wake_at[s]
    /\ Len(CallsOf(hist[s], pc[s])) + 1 >= stop_after_attempt
    /\ \E fate \in {"no_sheet", "fail", "lost_ack", "down"} : Attempt(s, fate)
    /\ Finish(s, "error")
    /\ UNCHANGED <<secrets, inputs, now, logs_cache, lock, widgets, logs_df, logs_via,
                   all_values, wake_at, response>>

(***************************************************************************)
(* The model call                                                          *)
(***************************************************************************)
\* the instruction strings of get_system_instruction, sentence by sentence:
\* "你是一個學術翻譯。" "將輸入內容翻譯成流暢的繁體中文，精確保留術語，不要做額外解釋。"
I_translate == <<"academic_translator", "translate_keep_terms_no_explanation">>
\* "用一句話解釋這個概念的定義。"
I_brief == <<"define_in_one_sentence">>
\* "詳細解釋這段內容。" "如果是概念，說明其原理；如果是論述，分析其邏輯。"
I_std == <<"explain_in_detail", "principle_of_concept_logic_of_argument">>
\* "解釋這段內容，並延伸介紹相關聯的學術概念。"
I_ext == <<"explain_and_extend_to_related_concepts">>
\* "詳細解釋這段內容。"
I_else == <<"explain_in_detail">>

\* get_system_instruction(mode, depth), depth being "brief" for "摘要", "std"
\* for "詳解", "ext" for "延伸"
get_system_instruction(mode, depth) ==
    IF mode = "translate" THEN I_translate
    ELSE IF mode = "explain"
         THEN IF depth = "brief" THEN I_brief
              ELSE IF depth = "std" THEN I_std
              ELSE IF depth = "ext" THEN I_ext
              ELSE I_else
         ELSE <<>>

\* system_prompt of the handler: get_system_instruction("translate") or
\* get_system_instruction("explain", depth_mode)
system_prompt(s) == get_system_instruction(widgets[s].btn, widgets[s].pill)

\* the model call with its exception swallowed: the handler goes on to the AI record
InvokeFailureIgnored(s) ==
    /\ pc[s] = "Invoking"
    /\ \/ /\ response' = [response EXCEPT ![s] = inputs[s].answer]
          /\ hist' = [hist EXCEPT ![s] = Append(@,
                         [stage |-> "Invoking", ok |-> TRUE, ws |-> "none", row |-> 0,
                          si |-> system_prompt(s)])]
          /\ UNCHANGED faults
       \/ /\ faults > 0
          /\ faults' = faults - 1
          /\ hist' = [hist EXCEPT ![s] = Append(@,
                         [stage |-> "Invoking", ok |-> FALSE, ws |-> "none", row |-> 0,
                          si |-> system_prompt(s)])]
          /\ UNCHANGED response
    /\ Proceed(s, "Invoking")
    /\ wake_at' = [wake_at EXCEPT ![s] = now]
    /\ UNCHANGED <<secrets, inputs, client_cache, sheet, acked, now, logs_cache, lock,
                   logs_df, logs_via, all_values>>

\* client.models.generate_content(...)
Invoke(s) ==
    /\ pc[s] = "Invoking"
    /\ \/ /\ response' = [response EXCEPT ![s] = inputs[s].answer]
          /\ hist' = [hist EXCEPT ![s] = Append(@,
                         [stage |-> "Invoking", ok |-> TRUE, ws |-> "none", row |-> 0,
                          si |-> system_prompt(s)])]
          /\ Proceed(s, "Invoking")
          /\ UNCHANGED faults
       \/ /\ faults > 0
          /\ faults' = faults - 1
          /\ hist' = [hist EXCEPT ![s] = Append(@,
                         [stage |-> "Invoking", ok |-> FALSE, ws |-> "none", row |-> 0,
                          si |-> system_prompt(s)])]
          /\ Finish(s, "error")
          /\ UNCHANGED <<widgets, response>>
    /\ wake_at' = [wake_at EXCEPT ![s] = now]
    /\ UNCHANGED <<secrets, inputs, client_cache, sheet, acked, now, logs_cache, lock,
                   logs_df, logs_via, all_values>>

\* the run of a handler is over; the session waits for the next interaction
EndRun(s) ==
    /\ pc[s] = "Done"
    /\ Leave(s)
    /\ UNCHANGED <<secrets, inputs, faults, client_cache, sheet, acked, now, logs_cache, lock,
                   all_values>>

\* the session is between two calls: the script runs on without waiting
Running(s) ==
    \/ pc[s] \in {"InputZone", "Done"}
    \/ pc[s] = "LogZone" /\ (~check_sheets_connection \/ Fresh \/ lock = "none")

\* a second passes while every session is idle, asleep or inside a call
Tick ==
    /\ now < MaxTime
    /\ \A s \in Sessions : ~Running(s)
    /\ now' = now + 1
    /\ UNCHANGED <<secrets, inputs, faults, client_cache, sheet, acked, logs_cache, lock, pc,
                   widgets, logs_df, logs_via, all_values, hist, wake_at, response, msg>>

Next ==
    \/ \E s \in Sessions :
          \/ LogZoneOff(s)
          \/ get_logs_hit(s)
          \/ get_logs_miss(s)
          \/ get_logs_raise(s)
          \/ get_logs_store(s)
          \/ NoButton(s)
          \/ EmptyInput(s)
          \/ NotConnected(s)
          \/ NoApiKey(s)
          \/ StartHandler(s)
          \/ add_log_ok(s)
          \/ add_log_retry(s)
          \/ add_log_give_up(s)
          \/ Invoke(s)
          \/ EndRun(s)
    \/ Tick

Spec == Init /\ [][Next]_vars

SpecShared == InitShared /\ [][Next]_vars


(***************************************************************************)
(* Properties                                                              *)
(***************************************************************************)
Range(q) == {q[i] : i \in DOMAIN q}

\* the add_log call of a stage is over
Returned(s, stage) == pc[s] # stage

\* the run ended in the except branch right after its last call, of this stage
EndedInErrorAt(s, stage) ==
    /\ pc[s] = "Done"
    /\ msg[s] = "error"
    /\ hist[s] # <<>>
    /\ hist[s][Len(hist[s])].stage = stage

(* C1: an add_log call makes at most 3 attempts; it goes on after a first and
   after a second failed attempt; when append_row fails twice and then
   succeeds the call returns normally after exactly 3 attempts; when it fails
   3 times the call raises after exactly 3 attempts. *)
RetryLaw ==
    \A s \in Sessions : \A stage \in WriteStages :
        LET c == CallsOf(hist[s], stage)
        IN  /\ Len(c) <= 3
            /\ (c # <<>> /\ Len(c) < 3 /\ ~c[Len(c)].ok) => ~Returned(s, stage)
            /\ (Len(c) >= 3 /\ ~c[1].ok /\ ~c[2].ok /\ c[3].ok)
                 => Len(c) = 3 /\ Returned(s, stage) /\ ~EndedInErrorAt(s, stage)
            /\ (Len(c) >= 3 /\ ~c[1].ok /\ ~c[2].ok /\ ~c[3].ok)
                 => Len(c) = 3 /\ EndedInErrorAt(s, stage)

\* C1 witness: append_row failed twice on an open worksheet, then succeeded
RetryLawWitness ==
    \E s \in Sessions : \E stage \in WriteStages :
        LET c == CallsOf(hist[s], stage)
        IN  /\ Len(c) = 3
            /\ \A i \in 1..3 : c[i].ws = "worksheet"
            /\ ~c[1].ok /\ ~c[2].ok /\ c[3].ok
            /\ Returned(s, stage)

(* C2: when get_worksheet returns None, add_log fails at once: the call makes
   exactly one attempt and is over, without a retry or a wait. *)
UnavailableFailsAtOnce ==
    \A s \in Sessions : \A stage \in WriteStages :
        LET c == CallsOf(hist[s], stage)
        IN  (c # <<>> /\ c[1].ws = "None") => Len(c) = 1 /\ Returned(s, stage)

(* C3: get_logs never raises to its caller, and returns the empty frame when
   the worksheet is not available or the read fails. *)
GetLogsNeverRaises ==
    \A s \in Sessions :
        /\ logs_via[s].how # "raise"
        /\ (logs_via[s].how = "miss" /\ logs_via[s].rows = -1) => logs_df[s] = EmptyFrame

(* C4: the content cell of every row add_log writes is the content passed to
   the call when that has at most 50000 characters, and its first 50000
   characters followed by the truncation marker otherwise, 50000 + 14
   characters in all. *)
ContentBounding ==
    \A s \in Sessions : \A n \in DOMAIN hist[s] :
        LET e == hist[s][n]
            C == LogArgs(s, e.stage).content
            stored == sheet[e.row][4]
        IN  e.row > 0 =>
              /\ StrLen(C) <= 50000 => stored = C
              /\ StrLen(C) > 50000 =>
                    /\ stored = Concat(Slice(C, 50000), TruncationMarker)
                    /\ Slice(stored, 50000) = Slice(C, 50000)
                    /\ StrLen(stored) = 50000 + StrLen(TruncationMarker)

\* C4 witness: a row was written from a content of more than 50000 characters
ContentBoundingWitness ==
    \E s \in Sessions : \E n \in DOMAIN hist[s] :
        /\ hist[s][n].row > 0
        /\ StrLen(LogArgs(s, hist[s][n].stage).content) > 50000
        /\ StrLen(sheet[hist[s][n].row][4]) = 50014

\* the timestamps of the rows of a frame are pairwise different
DistinctTimestamps(data) ==
    \A i, j \in DOMAIN data : i # j => data[i][1] # data[j][1]

(* C5: what a get_logs call that read the sheet returns, under the header
   [timestamp, role, tag, content], is in descending order of timestamp: no
   row has a smaller timestamp than the row after it, and a greater one when
   the timestamps are all different. *)
SortedDescending ==
    \A s \in Sessions :
        (logs_via[s].how = "miss" /\ logs_df[s].columns = default_columns) =>
            LET data == logs_df[s].data
            IN  \A i \in 1..(Len(data) - 1) :
                    /\ ~StrLess(data[i][1], data[i + 1][1])
                    /\ DistinctTimestamps(data) => StrLess(data[i + 1][1], data[i][1])

\* C5 witness: a call that read the sheet returned rows of different timestamps,
\* which the sheet holds in the opposite order
SortedDescendingWitness ==
    \E s \in Sessions :
        /\ logs_via[s].how = "miss"
        /\ logs_df[s].columns = default_columns
        /\ Len(logs_df[s].data) >= 2
        /\ logs_df[s].data[1][1] # logs_df[s].data[2][1]
        /\ logs_df[s].data # SubSeq(sheet, 2, Len(logs_df[s].data) + 1)

\* the place of a row in the sheet (the last one, should it occur twice)
SheetPos(row) ==
    LET P == {i \in 1..Len(sheet) : sheet[i] = row}
    IN  IF P = {} THEN 0 ELSE CHOOSE i \in P : \A j \in P : j <= i

(* C6: two rows of a returned frame that share a timestamp are listed in the
   reverse of the order in which they were appended. *)
TiesNewestFirst ==
    \A s \in Sessions :
        (logs_via[s].how \in {"hit", "miss"} /\ logs_df[s].columns = default_columns) =>
            LET data == logs_df[s].data
            IN  \A i, j \in DOMAIN data :
                    (i < j /\ data[i][1] = data[j][1] /\ data[i] # data[j])
                        => SheetPos(data[i]) > SheetPos(data[j])

(* C7: a get_logs call made while the cached entry is alive returns the cached
   frame without reading the sheet and leaves the entry as it is; the entry is
   replaced only once it has expired; so the calls of all sessions during the
   life of one entry return the same frame. *)
CacheWindowIdempotent ==
    /\ [](\A s \in Sessions :
            (pc[s] = "InputZone" /\ logs_via[s].how \in {"hit", "miss"})
                => (logs_cache.set /\ now < logs_cache.expire /\ logs_df[s] = logs_cache.value))
    /\ [][ /\ logs_cache' # logs_cache => ~(logs_cache.set /\ now < logs_cache.expire)
           /\ \A s \in Sessions :
                 ( /\ pc[s] \in {"Idle", "LogZone"}
                   /\ pc'[s] \notin {"Idle", "LogZone"}
                   /\ check_sheets_connection
                   /\ logs_cache.set /\ now < logs_cache.expire )
                 => /\ pc'[s] = "InputZone"
                    /\ logs_df'[s] = logs_cache.value
                    /\ logs_cache' = logs_cache
                    /\ all_values' = all_values
                    /\ sheet' = sheet ]_vars

\* C7 witness: one session read the sheet, the other was served the same rows
\* from the cache
CacheWindowWitness ==
    \E s, t \in Sessions :
        /\ pc[s] = "InputZone" /\ pc[t] = "InputZone"
        /\ logs_via[s].how = "miss"
        /\ logs_via[t].how = "hit"
        /\ logs_df[t].data # <<>>

Rank(stage) ==
    CASE stage = "LoggingUser" -> 1
      [] stage = "Invoking" -> 2
      [] stage = "LoggingAI" -> 3
      [] OTHER -> 0

(* C9: in a translate or explain run, every attempt to write the user record
   comes before the model call, the model is called once, every attempt to
   write the AI record comes after a model call that answered, and while the
   model is being called the user record's add_log is over. *)
StrictlySequential ==
    \A s \in Sessions :
        LET h == hist[s]
        IN  /\ \A i, j \in DOMAIN h : i < j => Rank(h[i].stage) <= Rank(h[j].stage)
            /\ Len(CallsOf(h, "Invoking")) <= 1
            /\ \A j \in DOMAIN h : h[j].stage = "Invoking" =>
                  j > 1 /\ h[j - 1].stage = "LoggingUser"
            /\ \A j \in DOMAIN h : h[j].stage = "LoggingAI" =>
                  \E i \in 1..(j - 1) : h[i].stage = "Invoking" /\ h[i].ok
            /\ pc[s] = "Invoking" => h # <<>> /\ h[Len(h)].stage = "LoggingUser"
            /\ pc[s] = "LoggingAI" => CallsOf(h, "Invoking") # <<>>

\* C9 witness: a run wrote the user record, called the model and wrote the AI record
StrictlySequentialWitness ==
    \E s \in Sessions :
        /\ CallsOf(hist[s], "LoggingUser") # <<>>
        /\ CallsOf(hist[s], "Invoking") # <<>>
        /\ CallsOf(hist[s], "LoggingAI") # <<>>
        /\ hist[s][Len(hist[s])].ok

(* C10: when the add_log call for the user record has failed, the run still
   goes on to call the model. *)
UserLogFailureNonFatal ==
    \A s \in Sessions :
        LET c == CallsOf(hist[s], "LoggingUser")
        IN  (c # <<>> /\ Returned(s, "LoggingUser") /\ ~c[Len(c)].ok)
                => (pc[s] = "Invoking" \/ CallsOf(hist[s], "Invoking") # <<>>)

(* C11: when the add_log call for the AI record has failed after a model call
   that answered, the run still ends as a success: it does not end in the
   error branch. *)
AILogFailureNonFatal ==
    \A s \in Sessions :
        LET c == CallsOf(hist[s], "LoggingAI")
        IN  (c # <<>> /\ Returned(s, "LoggingAI") /\ ~c[Len(c)].ok) => msg[s] # "error"

(* C12: when the model call has failed, the run is over at once in the error
   branch: the failed call is the last call of the run, no add_log call for
   the AI record is made and the run has written no row of role ai. *)
InvokeFailureFatal ==
    \A s \in Sessions : \A j \in DOMAIN hist[s] :
        (hist[s][j].stage = "Invoking" /\ ~hist[s][j].ok) =>
            /\ j = Len(hist[s])
            /\ pc[s] = "Done"
            /\ msg[s] = "error"
            /\ CallsOf(hist[s], "LoggingAI") = <<>>
            /\ \A n \in DOMAIN hist[s] :
                  hist[s][n].row > 0 => sheet[hist[s][n].row][2] # S_ai

\* C12 witness: the user record is in the sheet and the model call has failed
InvokeFailureFatalWitness ==
    \E s \in Sessions :
        /\ \E n \in DOMAIN hist[s] : hist[s][n].stage = "LoggingUser" /\ hist[s][n].row > 0
        /\ \E j \in DOMAIN hist[s] : hist[s][j].stage = "Invoking" /\ ~hist[s][j].ok

\* the text has no character other than blanks
Blank(text) == \A i \in DOMAIN text : text[i].c \in Whitespace

(* C13: a run whose button was pressed on an empty or blank input makes no
   call to the sheet or to the model, and its handler ends the run with a
   warning, leaving the sheet, the model response and the run's calls as they
   were. *)
ValidationChangesNothing ==
    /\ [](\A s \in Sessions :
            (widgets[s].btn # "none" /\ Blank(widgets[s].text)) =>
                /\ hist[s] = <<>>
                /\ pc[s] \in {"Fetching", "InputZone", "Done"}
                /\ pc[s] = "Done" => msg[s] = "warning")
    /\ [][ \A s \in Sessions :
             ( /\ pc[s] = "InputZone"
               /\ widgets[s].btn # "none"
               /\ Blank(widgets[s].text)
               /\ pc'[s] # "InputZone" )
             => /\ pc'[s] = "Done"
                /\ msg'[s] = "warning"
                /\ sheet' = sheet
                /\ acked' = acked
                /\ hist' = hist
                /\ response' = response ]_vars

\* C13 witness: a button was pressed on a text of blanks and the run ended
\* with the warning
ValidationWitness ==
    \E s \in Sessions :
        /\ widgets[s].btn \in Buttons
        /\ widgets[s].text # <<>>
        /\ Blank(widgets[s].text)
        /\ pc[s] = "Done"
        /\ msg[s] = "warning"

(* C14: what get_worksheet returns is settled by its first call: the calls of
   a run that return a worksheet or None all return the same. *)
ResolveOnceOnly ==
    \A s \in Sessions : \A i, j \in DOMAIN hist[s] :
        (hist[s][i].ws \in {"None", "worksheet"} /\ hist[s][j].ws \in {"None", "worksheet"})
            => hist[s][i].ws = hist[s][j].ws

(* C15: get_worksheet never raises: neither the call of get_logs nor a call
   of add_log ends with an exception of the connector. *)
ConnectorFailsClosed ==
    \A s \in Sessions :
        /\ logs_via[s].how # "raise"
        /\ \A n \in DOMAIN hist[s] : hist[s][n].ws # "raise"

\* the values depth_mode and other callers can pass for depth
DepthValues == {"brief", "std", "ext", "None", "unknown"}

(* C16: get_system_instruction returns the translation instruction for mode
   translate, the empty string for a mode other than translate and explain,
   and, for mode explain with a depth that is none of the three recognised
   ones, the very instruction it returns for the standard depth; so does the
   instruction a handler passes to the model. *)
InstructionFallback ==
    /\ \A depth \in DepthValues :
          /\ get_system_instruction("translate", depth) = I_translate
          /\ get_system_instruction("note", depth) = <<>>
    /\ \A s \in Sessions : \A j \in DOMAIN hist[s] :
          (hist[s][j].stage = "Invoking" /\ widgets[s].btn = "explain"
              /\ widgets[s].pill \notin {"brief", "std", "ext"})
            => hist[s][j].si = get_system_instruction("explain", "std")

(* C17: the sheet only grows at its end: at every step the rows it had are
   the first rows it has, unchanged and in the same order, whichever session
   takes the step; and a step of get_logs leaves the sheet as it is. *)
AppendOnly ==
    [][ /\ Len(sheet') >= Len(sheet)
        /\ SubSeq(sheet', 1, Len(sheet)) = sheet
        /\ \A s \in Sessions :
              (pc[s] \in {"Idle", "LogZone", "Fetching"} /\ pc'[s] # pc[s]) => sheet' = sheet
      ]_vars

\* C17 witness: two rows were appended to a sheet that had rows, and a
\* get_logs call has read them all
AppendOnlyWitness ==
    \E s \in Sessions :
        /\ Appended >= 2
        /\ Len(sheet) > Appended
        /\ logs_via[s].how = "miss"
        /\ logs_via[s].rows = Len(sheet)

\* the attempts of a call that left a row in the sheet
Commits(c) == {i \in DOMAIN c : c[i].row > 0}

(* C18: when append_row can write the row and still raise, an add_log call
   leaves between 0 and 3 rows in the sheet, no more than it made attempts; it
   leaves at least one when it returns normally; and every row it left,
   duplicates included, stays in the sheet, each at its own place, with the
   role, the tag and the bounded content of the call. *)
DeliveryBounds ==
    \A s \in Sessions : \A stage \in WriteStages :
        LET c == CallsOf(hist[s], stage)
            a == LogArgs(s, stage)
        IN  /\ Cardinality(Commits(c)) <= Len(c)
            /\ Len(c) <= 3
            /\ (c # <<>> /\ c[Len(c)].ok /\ Returned(s, stage)) => Commits(c) # {}
            /\ \A i, j \in Commits(c) : i # j => c[i].row # c[j].row
            /\ \A i \in Commits(c) :
                  /\ c[i].row <= Len(sheet)
                  /\ (stage = pc[s] \/ widgets[s].btn # "none") =>
                        SubSeq(sheet[c[i].row], 2, 4) = <<a.role, a.tag, Truncate(a.content)>>

\* C18 witness: a call wrote the row, lost the answer, wrote it again and
\* returned: the sheet holds the record twice
DeliveryBoundsWitness ==
    \E s \in Sessions : \E stage \in WriteStages :
        LET c == CallsOf(hist[s], stage)
        IN  /\ Len(c) = 2
            /\ Commits(c) = {1, 2}
            /\ ~c[1].ok /\ c[2].ok
            /\ Returned(s, stage)
            /\ SubSeq(sheet[c[1].row], 2, 4) = SubSeq(sheet[c[2].row], 2, 4)

\* a and b hold the same rows the same number of times
IsPermutation(a, b) ==
    /\ Len(a) = Len(b)
    /\ \A x \in Range(a) \cup Range(b) :
          Cardinality({i \in DOMAIN a : a[i] = x}) = Cardinality({i \in DOMAIN b : b[i] = x})

(* C19: what a get_logs call that read the sheet without a failure returns
   holds each of the rows 2..N it read exactly once, in some order, when it
   read N >= 2 rows, and is the empty frame when it read fewer than 2. *)
OneRecordPerRow ==
    \A s \in Sessions :
        (logs_via[s].how = "miss" /\ logs_via[s].rows >= 0) =>
            LET n == logs_via[s].rows
            IN  IF n < 2 THEN logs_df[s] = EmptyFrame
                ELSE IsPermutation(logs_df[s].data, SubSeq(sheet, 2, n))

\* C19 witness: a call read the header and two records and returned both, the
\* later one first
OneRecordPerRowWitness ==
    \E s \in Sessions :
        /\ logs_via[s].how = "miss"
        /\ logs_via[s].rows = 3
        /\ logs_df[s].data = <<sheet[3], sheet[2]>>
        /\ sheet[3] # sheet[2]

====
